---- MODULE Spec2Model ----
(***************************************************************************)
(* State commitment and validation subsystem of RGB Core:                  *)
(*   src/src/validation/state.rs   StateSchema::validate                   *)
(*   src/src/contract/fungible.rs  fungible values, Pedersen commitments   *)
(*   src/src/contract/attachment.rs attachment state and its concealment   *)
(* The library has no scheduler: every operation is a call.  A call is     *)
(* modelled as an action that takes the arguments captured in the state    *)
(* and stores what the call returns (or the fact that it aborted).         *)
(***************************************************************************)
EXTENDS Integers, Sequences, FiniteSets, TLC

VARIABLES
    pc,     \* "ready": arguments of a call are set; "done": the call returned
    op,     \* the call: its name and its arguments
    ret,    \* what the call returned; Panic when it aborted; None before it
    rng,    \* the state of the random generator (thread_rng)
    last,   \* the latest call of a sequence of calls, with what it returned
    prev    \* a call made earlier in the sequence, with what it returned

vars == <<pc, op, ret, rng, last, prev>>

None == [none |-> TRUE]
Panic == [panic |-> TRUE]

(***************************************************************************)
(* Bounds of the model.                                                    *)
(***************************************************************************)
MaxOpId == 2
MaxAssignmentType == 1
MaxSeal == 1
MaxSemId == 2
MaxDataLen == 2
MaxValue == 1
MaxBlinding == 5
MaxNoise == 1
MaxAttachId == 1
MaxSalt == 1
MaxRng == 1
MaxTag == 6
MaxByteIdx == 3
MaxLibs == 2

(***************************************************************************)
(* Scalars and points of the curve.  The curve group is modelled by the    *)
(* additive group of integers modulo CurveOrder, with base point G.        *)
(***************************************************************************)
CurveOrder == 5
G == 1

OpIds == 1..MaxOpId
AssignmentTypes == 0..MaxAssignmentType
Seals == 0..MaxSeal
SemIds == 1..MaxSemId

\* schema::FungibleType: the subtype a fungible schema declares.
FungibleTypes == {"Unsigned64Bit", "Reserved"}

\* MediaType of an attachment.
MediaTypes == {"Any", "ImagePng", "TextPlain"}

\* self conforms to the media type other a schema declares: it matches it, or
\* other permits it.
conforms(self, other) == other = "Any" \/ self = other

\* StateSchema: Declarative | Fungible(FungibleType) | Structured(SemId)
\*            | Attachment(MediaType)
StateSchemas ==
    {[kind |-> "Declarative"]}
    \cup [kind : {"Fungible"}, fungible : FungibleTypes]
    \cup [kind : {"Structured"}, sem_id : SemIds]
    \cup [kind : {"Attachment"}, media_type : MediaTypes]

StateSchema_state_type(schema) ==
    IF schema.kind = "Declarative" THEN "Void" ELSE schema.kind

(***************************************************************************)
(* Fungible state (contract/fungible.rs).                                  *)
(***************************************************************************)
\* FungibleState: the only variant is Bits64(u64).
FungibleStates == [variant : {"Bits64"}, val : 0..MaxValue]

fungible_type_Wrong(self) ==
    CASE self.variant = "Bits64" -> "Reserved"

\* FungibleState::fungible_type
fungible_type(self) ==
    CASE self.variant = "Bits64" -> "Unsigned64Bit"

\* BlindingFactor(Bytes32): any 32-byte string can be held; the strings that
\* are scalars of the curve are 1..CurveOrder-1.
BlindingFactors == 0..MaxBlinding

RevealedValues ==
    [ty : {"RevealedValue"}, value : FungibleStates, blinding : BlindingFactors]

\* PedersenCommitment: a point of the curve.
PedersenCommitments == [point : 0..(CurveOrder - 1)]

\* RangeProof: the only variant is Placeholder(NoiseDumb).
RangeProofs == [variant : {"Placeholder"}, noise : 0..MaxNoise]

ConcealedValues ==
    [ty : {"ConcealedValue"}, commitment : PedersenCommitments,
     range_proof : RangeProofs]

RevealedValue_state_data(self) == [kind |-> "Fungible", v |-> self]

ConcealedValue_state_commitment(self) == [kind |-> "Fungible", value |-> self]

\* ConcealedValue::verify
verify(self) ==
    CASE self.range_proof.variant = "Placeholder" -> [bool |-> FALSE]

verify_range_proof_Ok(self) == [ok |-> TRUE, val |-> TRUE]

\* ConcealedValue::verify_range_proof
verify_range_proof(self) == [ok |-> FALSE, err |-> "BulletproofsAbsent"]

\* Display of RangeProofError (its doc comments).
RangeProofError_to_string(err) ==
    IF err = "BulletproofsAbsent"
    THEN "bulletproofs verification is not implemented in RGB Core v0.10."
    ELSE "invalid blinding factor"

(***************************************************************************)
(* Attachment state (contract/attachment.rs).                              *)
(***************************************************************************)
AttachIds == 0..MaxAttachId
Salts == 0..MaxSalt

RevealedAttachs ==
    [ty : {"RevealedAttach"}, id : AttachIds, media_type : MediaTypes,
     salt : Salts]

RevealedAttach_state_data(self) == [kind |-> "Attachment", attach |-> self]

\* Little-endian bytes of an unsigned integer, n bytes wide.
RECURSIVE to_le_bytes(_, _)
to_le_bytes(x, n) ==
    IF n = 0 THEN <<>> ELSE <<x % 256>> \o to_le_bytes(x \div 256, n - 1)

\* Strict encoding of a MediaType: its one-byte tag.
MediaType_tag(m) ==
    CASE m = "Any" -> 255
      [] m = "ImagePng" -> 1
      [] m = "TextPlain" -> 2

RevealedAttach_strict_encode_NoSalt(self) ==
    <<self.id>> \o <<MediaType_tag(self.media_type)>>

\* Strict encoding of a RevealedAttach (derived): its fields in order, the
\* identifier, the media type tag, the salt as a little-endian u64.
RevealedAttach_strict_encode(self) ==
    <<self.id>> \o <<MediaType_tag(self.media_type)>> \o to_le_bytes(self.salt, 8)

\* SHA-256, as an ideal (collision-free) hash: the digest of a byte string is
\* a term that stands for that string alone.
Sha256_digest(bytes) == [sha256 |-> bytes]

\* Bytes32::commit under StrictEncodedProtocol: the digest of the strict
\* encoding of the message.
ConcealedAttach_commit(revealed) ==
    [ty |-> "ConcealedAttach",
     digest |-> Sha256_digest(RevealedAttach_strict_encode(revealed))]

\* Conceal for RevealedAttach
RevealedAttach_conceal(self) == ConcealedAttach_commit(self)

ConcealedAttachs == {RevealedAttach_conceal(r) : r \in RevealedAttachs}

ConcealedAttach_state_commitment(self) == [kind |-> "Attachment", c |-> self]

(***************************************************************************)
(* Pedersen commitments (contract/fungible.rs).                            *)
(***************************************************************************)
\* SecretKey::from_slice and Tweak::from_inner accept the scalars of the curve:
\* not zero, and below the order of the group.
ValidScalar(b) == b >= 1 /\ b < CurveOrder

\* The generator the value is multiplied by: Generator::new_unblinded of the
\* tag SHA-256(G), a point of the group other than G.
Generator_new_unblinded == (G + G) % CurveOrder

PedersenCommitment_commit_Randomized(revealed) ==
    IF ~ValidScalar(revealed.blinding)
    THEN Panic
    ELSE [point |->
            ((revealed.blinding + rng) * G
                + revealed.value.val * Generator_new_unblinded) % CurveOrder]

\* PedersenCommitment::commit: blinding * G + value * H; aborts when the
\* blinding factor is no scalar of the curve.
PedersenCommitment_commit(revealed) ==
    IF ~ValidScalar(revealed.blinding)
    THEN Panic
    ELSE [point |->
            (revealed.blinding * G + revealed.value.val * Generator_new_unblinded)
                % CurveOrder]

\* secp256k1_zkp::PedersenCommitment::serialize: the compressed point, a
\* parity tag (8 or 9) and the coordinate.
PedersenCommitment_serialize(c) == <<8 + (c.point % 2), c.point>>

\* CommitEncode for PedersenCommitment (strategy = strict): the strict
\* encoding, which writes the serialized point.
PedersenCommitment_commit_encode(c) == PedersenCommitment_serialize(c)

\* Strict encoding of a RangeProof: tag 0xFF and the noise.
RangeProof_strict_encode(p) == <<255, p.noise>>

ConcealedValue_commit_encode_WithProof(self) ==
    [written |-> PedersenCommitment_commit_encode(self.commitment)
                    \o RangeProof_strict_encode(self.range_proof)]

\* CommitEncode for ConcealedValue (derived): the fields in order, range_proof
\* skipped.
ConcealedValue_commit_encode(self) ==
    [written |-> PedersenCommitment_commit_encode(self.commitment)]

\* CommitEncode for RevealedValue
RevealedValue_commit_encode(self) ==
    LET commitment == PedersenCommitment_commit(self)
    IN  IF commitment = Panic THEN Panic
        ELSE [written |-> PedersenCommitment_commit_encode(commitment)]

ConcealedValue_commit_Fabricate(revealed) ==
    [ty |-> "ConcealedValue",
     commitment |-> PedersenCommitment_commit(revealed),
     range_proof |-> [variant |-> "Placeholder", noise |-> 0]]

\* ConcealedValue::commit: aborts before anything is computed.
ConcealedValue_commit(revealed) == Panic

\* Conceal for RevealedValue
RevealedValue_conceal(self) == ConcealedValue_commit(self)

(***************************************************************************)
(* States an assignment can hold, and what the validator sees of them.     *)
(***************************************************************************)
\* VoidState, and structured data (RevealedData, a blob) with its commitment.
VoidState == [ty |-> "VoidState"]
RevealedDatas == [ty : {"RevealedData"}, len : 0..MaxDataLen]
ConcealedDatas == [ty : {"ConcealedData"}, len : 0..MaxDataLen]

ExposedStates ==
    {VoidState} \cup RevealedValues \cup RevealedDatas \cup RevealedAttachs
ConfidentialStates ==
    {VoidState} \cup ConcealedValues \cup ConcealedDatas \cup ConcealedAttachs

\* ExposedState::state_data
state_data(state) ==
    CASE state.ty = "VoidState" -> [kind |-> "Void"]
      [] state.ty = "RevealedValue" -> RevealedValue_state_data(state)
      [] state.ty = "RevealedData" -> [kind |-> "Structured", data |-> state]
      [] state.ty = "RevealedAttach" -> RevealedAttach_state_data(state)

\* ConfidentialState::state_commitment
state_commitment(state) ==
    CASE state.ty = "VoidState" -> [kind |-> "Void"]
      [] state.ty = "ConcealedValue" -> ConcealedValue_state_commitment(state)
      [] state.ty = "ConcealedData" -> [kind |-> "Structured", c |-> state]
      [] state.ty = "ConcealedAttach" -> ConcealedAttach_state_commitment(state)

\* StateData::state_type and StateCommitment::state_type
state_type_of(found) == found.kind

\* Assign<State, Seal>: each of the state and the seal revealed or concealed.
Assigns ==
    [variant : {"Confidential", "ConfidentialState"}, seal : Seals,
     state : ConfidentialStates]
    \cup [variant : {"Revealed", "ConfidentialSeal"}, seal : Seals,
          state : ExposedStates]

\* The ambient TypeSystem: the semantic ids it knows.  The type with id s is
\* a byte array of s bytes; strict_deserialize_type fails for an id that is
\* not known and for a payload that is not of the type.
TypeSystems == SUBSET SemIds

strict_deserialize_type_is_err(type_system, sem_id, data) ==
    ~(sem_id \in type_system /\ data.len = sem_id)

\* validation::Status
Status_new == [failures |-> <<>>, warnings |-> <<>>, info |-> <<>>]
add_failure(status, failure) ==
    [status EXCEPT !.failures = Append(@, failure)]
add_info(status, info) ==
    [status EXCEPT !.info = Append(@, info)]

(***************************************************************************)
(* StateSchema::validate (validation/state.rs).                            *)
(***************************************************************************)
concealed_mismatch_Swapped(status, opid, state_type, state_schema, found) ==
    add_failure(status,
        [failure |-> "StateTypeMismatch", opid |-> opid,
         state_type |-> state_type,
         expected |-> state_type_of(found),
         found |-> StateSchema_state_type(state_schema)])

\* The last arm of the match on concealed state: all other options are
\* mismatches.
concealed_mismatch(status, opid, state_type, state_schema, found) ==
    add_failure(status,
        [failure |-> "StateTypeMismatch", opid |-> opid,
         state_type |-> state_type,
         expected |-> StateSchema_state_type(state_schema),
         found |-> state_type_of(found)])

revealed_mismatch_Swapped(status, opid, state_type, state_schema, found) ==
    add_failure(status,
        [failure |-> "StateTypeMismatch", opid |-> opid,
         state_type |-> state_type,
         expected |-> state_type_of(found),
         found |-> StateSchema_state_type(state_schema)])

\* The last arm of the match on revealed state.
revealed_mismatch(status, opid, state_type, state_schema, found) ==
    add_failure(status,
        [failure |-> "StateTypeMismatch", opid |-> opid,
         state_type |-> state_type,
         expected |-> StateSchema_state_type(state_schema),
         found |-> state_type_of(found)])

bulletproofs_arm_WithInfo(status, opid, state_type, value) ==
    LET res == verify_range_proof(value)
    IN  IF ~res.ok
        THEN add_info(
                add_failure(status,
                    [failure |-> "BulletproofsInvalid", opid |-> opid,
                     state_type |-> state_type,
                     err |-> RangeProofError_to_string(res.err)]),
                [info |-> "UncheckableConfidentialState", opid |-> opid,
                 state_type |-> state_type])
        ELSE status

\* The arm (Fungible(_), StateCommitment::Fungible(value)) of the match on
\* concealed state.
bulletproofs_arm(status, opid, state_type, value) ==
    LET res == verify_range_proof(value)
    IN  IF ~res.ok
        THEN add_failure(status,
                [failure |-> "BulletproofsInvalid", opid |-> opid,
                 state_type |-> state_type,
                 err |-> RangeProofError_to_string(res.err)])
        ELSE status

structured_arm_Unchecked(status, type_system, opid, state_type, sem_id, data) ==
    status

\* The arm (Structured(sem_id), StateData::Structured(data)) of the match on
\* revealed state.
structured_arm(status, type_system, opid, state_type, sem_id, data) ==
    IF strict_deserialize_type_is_err(type_system, sem_id, data)
    THEN add_failure(status,
            [failure |-> "SchemaInvalidOwnedValue", opid |-> opid,
             state_type |-> state_type, sem_id |-> sem_id])
    ELSE status

\* The match on (self, state.state_commitment()): the arms in order.
validate_concealed(self, status, opid, state_type, state) ==
    LET c == state_commitment(state)
    IN  IF self.kind = "Declarative" /\ c.kind = "Void" THEN status
        ELSE IF self.kind = "Fungible" /\ c.kind = "Fungible"
        THEN bulletproofs_arm(status, opid, state_type, c.value)
        ELSE IF self.kind = "Structured" /\ c.kind = "Structured"
        THEN add_info(status,
                [info |-> "UncheckableConfidentialState", opid |-> opid,
                 state_type |-> state_type])
        ELSE IF self.kind = "Attachment" /\ c.kind = "Attachment"
        THEN add_info(status,
                [info |-> "UncheckableConfidentialState", opid |-> opid,
                 state_type |-> state_type])
        ELSE concealed_mismatch(status, opid, state_type, self, c)

\* The match on (self, state.state_data()): the arms in order, a guarded arm
\* falling through to the arms after it when its guard is false.
validate_revealed(self, type_system, status, opid, state_type, state) ==
    LET d == state_data(state)
    IN  IF self.kind = "Declarative" /\ d.kind = "Void" THEN status
        ELSE IF /\ self.kind = "Attachment" /\ d.kind = "Attachment"
                /\ ~conforms(d.attach.media_type, self.media_type)
        THEN add_failure(status,
                [failure |-> "MediaTypeMismatch", opid |-> opid,
                 state_type |-> state_type,
                 expected |-> self.media_type,
                 found |-> d.attach.media_type])
        ELSE IF /\ self.kind = "Fungible" /\ d.kind = "Fungible"
                /\ fungible_type(d.v.value) # self.fungible
        THEN add_failure(status,
                [failure |-> "FungibleTypeMismatch", opid |-> opid,
                 state_type |-> state_type,
                 expected |-> self.fungible,
                 found |-> fungible_type(d.v.value)])
        ELSE IF self.kind = "Fungible" /\ d.kind = "Fungible" THEN status
        ELSE IF self.kind = "Structured" /\ d.kind = "Structured"
        THEN structured_arm(status, type_system, opid, state_type,
                            self.sem_id, d.data)
        ELSE revealed_mismatch(status, opid, state_type, self, d)

IsConcealedState(data) ==
    data.variant \in {"Confidential", "ConfidentialState"}

validate_SealSensitive(self, type_system, opid, state_type, data) ==
    LET status == Status_new
    IN  IF data.variant = "Confidential"
        THEN validate_concealed(self, status, opid, state_type, data.state)
        ELSE IF data.variant = "ConfidentialState"
        THEN status
        ELSE validate_revealed(self, type_system, status, opid, state_type,
                               data.state)

\* StateSchema::validate
validate(self, type_system, opid, state_type, data) ==
    LET status == Status_new
    IN  IF IsConcealedState(data)
        THEN validate_concealed(self, status, opid, state_type, data.state)
        ELSE validate_revealed(self, type_system, status, opid, state_type,
                               data.state)

(***************************************************************************)
(* The calls.                                                              *)
(***************************************************************************)
ValidateCalls ==
    [name : {"validate"}, self : StateSchemas, type_system : TypeSystems,
     opid : OpIds, state_type : AssignmentTypes, data : Assigns]
VerifyCalls == [name : {"verify"}, self : ConcealedValues]
VerifyRangeProofCalls == [name : {"verify_range_proof"}, self : ConcealedValues]
ConcealCalls == [name : {"conceal"}, self : RevealedValues]

Calls == ValidateCalls \cup VerifyCalls \cup VerifyRangeProofCalls
            \cup ConcealCalls

Init ==
    /\ pc = "ready"
    /\ op \in Calls
    /\ ret = None
    /\ rng = 0 /\ last = None /\ prev = None

Validate ==
    /\ pc = "ready" /\ op.name = "validate"
    /\ ret' = validate(op.self, op.type_system, op.opid, op.state_type, op.data)
    /\ pc' = "done"
    /\ UNCHANGED <<op, rng, last, prev>>

Verify ==
    /\ pc = "ready" /\ op.name = "verify"
    /\ ret' = verify(op.self)
    /\ pc' = "done"
    /\ UNCHANGED <<op, rng, last, prev>>

VerifyRangeProof ==
    /\ pc = "ready" /\ op.name = "verify_range_proof"
    /\ ret' = verify_range_proof(op.self)
    /\ pc' = "done"
    /\ UNCHANGED <<op, rng, last, prev>>

Conceal ==
    /\ pc = "ready" /\ op.name = "conceal"
    /\ ret' = RevealedValue_conceal(op.self)
    /\ pc' = "done"
    /\ UNCHANGED <<op, rng, last, prev>>

Next == Validate \/ Verify \/ VerifyRangeProof \/ Conceal

Spec == Init /\ [][Next]_vars

(***************************************************************************)
(* Properties of StateSchema::validate.                                    *)
(***************************************************************************)
\* The state kind a schema kind expects, and the kind of a disclosed state,
\* read off the arguments of the call.
ExpectedKind(schema) ==
    CASE schema.kind = "Declarative" -> "Void"
      [] schema.kind = "Fungible" -> "Fungible"
      [] schema.kind = "Structured" -> "Structured"
      [] schema.kind = "Attachment" -> "Attachment"

DisclosedKind(state) ==
    CASE state.ty = "VoidState" -> "Void"
      [] state.ty \in {"RevealedValue", "ConcealedValue"} -> "Fungible"
      [] state.ty \in {"RevealedData", "ConcealedData"} -> "Structured"
      [] state.ty \in {"RevealedAttach", "ConcealedAttach"} -> "Attachment"

ValidatedConcealed ==
    pc = "done" /\ op.name = "validate" /\ IsConcealedState(op.data)
ValidatedRevealed ==
    pc = "done" /\ op.name = "validate" /\ ~IsConcealedState(op.data)

EmptyStatus(status) ==
    status.failures = <<>> /\ status.warnings = <<>> /\ status.info = <<>>

OneStateTypeMismatch(status) ==
    /\ status.failures =
         <<[failure |-> "StateTypeMismatch", opid |-> op.opid,
            state_type |-> op.state_type,
            expected |-> ExpectedKind(op.self),
            found |-> DisclosedKind(op.data.state)]>>
    /\ status.warnings = <<>> /\ status.info = <<>>

OneUncheckable(status) ==
    /\ status.failures = <<>> /\ status.warnings = <<>>
    /\ status.info =
         <<[info |-> "UncheckableConfidentialState", opid |-> op.opid,
            state_type |-> op.state_type]>>

\* C1: validate on concealed state returns, for each of the 4x4 pairs of
\* schema kind and commitment kind: an empty status for Declarative/Void; one
\* BulletproofsInvalid failure with the operation id and slot type and no
\* info for Fungible/Fungible; one UncheckableConfidentialState info and no
\* failure for Structured/Structured and Attachment/Attachment; one
\* StateTypeMismatch failure (expected the schema kind, found the commitment
\* kind) for each of the 12 cross pairs.
C1_ConcealedTable ==
    ValidatedConcealed =>
        LET e == ExpectedKind(op.self)
            f == DisclosedKind(op.data.state)
        IN  /\ (e = "Void" /\ f = "Void") => EmptyStatus(ret)
            /\ (e = "Fungible" /\ f = "Fungible") =>
                  /\ Len(ret.failures) = 1
                  /\ ret.failures[1].failure = "BulletproofsInvalid"
                  /\ ret.failures[1].opid = op.opid
                  /\ ret.failures[1].state_type = op.state_type
                  /\ ret.info = <<>> /\ ret.warnings = <<>>
            /\ (e = "Structured" /\ f = "Structured") => OneUncheckable(ret)
            /\ (e = "Attachment" /\ f = "Attachment") => OneUncheckable(ret)
            /\ (e # f) => OneStateTypeMismatch(ret)

C1_Witness ==
    /\ ValidatedConcealed
    /\ op.self.kind = "Fungible" /\ op.data.state.ty = "ConcealedAttach"
    /\ Len(ret.failures) = 1
    /\ ret.failures[1].failure = "StateTypeMismatch"

\* Revealed attachment data validated under an attachment schema.
ValidatedAttachment ==
    /\ ValidatedRevealed
    /\ op.self.kind = "Attachment" /\ op.data.state.ty = "RevealedAttach"

\* C2: validate on a revealed attachment under an Attachment schema returns
\* a status with no failure when the attachment's media type conforms to the
\* schema's, and exactly one MediaTypeMismatch failure (expected the schema's
\* media type, found the attachment's) when it does not.
C2_AttachmentMediaType ==
    ValidatedAttachment =>
        IF conforms(op.data.state.media_type, op.self.media_type)
        THEN ret.failures = <<>>
        ELSE ret.failures =
                <<[failure |-> "MediaTypeMismatch", opid |-> op.opid,
                   state_type |-> op.state_type,
                   expected |-> op.self.media_type,
                   found |-> op.data.state.media_type]>>

\* The subtype a fungible value declares.
DeclaredSubtype(value) ==
    CASE value.variant = "Bits64" -> "Unsigned64Bit"

ValidatedFungible ==
    /\ ValidatedRevealed
    /\ op.self.kind = "Fungible" /\ op.data.state.ty = "RevealedValue"

\* C3: validate on a revealed fungible state under Fungible(subtype) returns
\* an empty status exactly when the value's fungible type equals subtype;
\* otherwise exactly one FungibleTypeMismatch failure (expected subtype, found
\* the value's fungible type) and no StateTypeMismatch.
C3_FungibleSubtype ==
    ValidatedFungible =>
        LET found == DeclaredSubtype(op.data.state.value)
        IN  /\ EmptyStatus(ret) <=> (found = op.self.fungible)
            /\ (found # op.self.fungible) =>
                  /\ ret.failures =
                       <<[failure |-> "FungibleTypeMismatch", opid |-> op.opid,
                          state_type |-> op.state_type,
                          expected |-> op.self.fungible, found |-> found]>>
                  /\ ret.info = <<>> /\ ret.warnings = <<>>

C3_Witness ==
    /\ ValidatedFungible
    /\ op.self.fungible # "Unsigned64Bit"
    /\ Len(ret.failures) = 1
    /\ ret.failures[1].failure = "FungibleTypeMismatch"

ValidatedStructured ==
    /\ ValidatedRevealed
    /\ op.self.kind = "Structured" /\ op.data.state.ty = "RevealedData"

\* C4: validate on a revealed structured state under Structured(sem_id)
\* records exactly one SchemaInvalidOwnedValue failure naming the operation
\* id, the slot type and sem_id exactly when the type system fails to
\* deserialize the payload as sem_id; when it succeeds the status is empty.
C4_StructuredPayload ==
    ValidatedStructured =>
        IF strict_deserialize_type_is_err(op.type_system, op.self.sem_id,
                                          op.data.state)
        THEN /\ ret.failures =
                  <<[failure |-> "SchemaInvalidOwnedValue", opid |-> op.opid,
                     state_type |-> op.state_type, sem_id |-> op.self.sem_id]>>
             /\ ret.info = <<>> /\ ret.warnings = <<>>
        ELSE EmptyStatus(ret)

C4_Witness ==
    /\ ValidatedStructured
    /\ op.self.sem_id \in op.type_system
    /\ op.data.state.len # op.self.sem_id
    /\ Len(ret.failures) = 1
    /\ ret.failures[1].failure = "SchemaInvalidOwnedValue"

\* C5: validate on revealed state returns an empty status for a Declarative
\* schema with Void data, and for each of the 12 pairs where the schema kind
\* differs from the data kind exactly one StateTypeMismatch failure (expected
\* the schema's state kind, found the data's) and no other record.
C5_RevealedMismatch ==
    ValidatedRevealed =>
        LET e == ExpectedKind(op.self)
            f == DisclosedKind(op.data.state)
        IN  /\ (e = "Void" /\ f = "Void") => EmptyStatus(ret)
            /\ (e # f) => OneStateTypeMismatch(ret)

C5_Witness ==
    /\ ValidatedRevealed
    /\ op.self.kind = "Structured" /\ op.data.state.ty = "RevealedValue"
    /\ Len(ret.failures) = 1
    /\ ret.failures[1].failure = "StateTypeMismatch"

(***************************************************************************)
(* Properties of fungible concealment and range proofs.                    *)
(***************************************************************************)
\* C6: concealing a RevealedValue aborts for every value and every blinding
\* factor: no call returns a ConcealedValue.
C6_ConcealAborts ==
    (pc = "done" /\ op.name = "conceal") => ret = Panic

C6_Witness ==
    /\ pc = "done" /\ op.name = "conceal" /\ ret = Panic
    /\ ValidScalar(op.self.blinding)

\* C7: for every ConcealedValue, verify returns false and verify_range_proof
\* returns the error BulletproofsAbsent, never Ok; validate never returns a
\* failure-free status for a concealed fungible state under a fungible
\* schema.
C7_PlaceholderFailsClosed ==
    /\ (pc = "done" /\ op.name = "verify") => ret = [bool |-> FALSE]
    /\ (pc = "done" /\ op.name = "verify_range_proof") =>
          ret = [ok |-> FALSE, err |-> "BulletproofsAbsent"]
    /\ (/\ ValidatedConcealed
        /\ op.self.kind = "Fungible" /\ op.data.state.ty = "ConcealedValue") =>
          ret.failures # <<>>

C7_Witness ==
    /\ ValidatedConcealed
    /\ op.self.kind = "Fungible" /\ op.data.state.ty = "ConcealedValue"
    /\ Len(ret.failures) = 1
    /\ ret.failures[1].failure = "BulletproofsInvalid"

(***************************************************************************)
(* Sequences of commitment calls.  Every call is logged in last; prev keeps *)
(* some call made before it.  The constructors that draw randomness move   *)
(* the generator to a state nobody can predict.                            *)
(***************************************************************************)
RngStates == 0..MaxRng

\* secp256k1_zkp::SecretKey: the scalars of the curve.
SecretKeys == {b \in BlindingFactors : ValidScalar(b)}

\* RevealedValue::new, with the secret key SecretKey::new(rng) drew.
RevealedValue_new(value, key) ==
    [ty |-> "RevealedValue", value |-> [variant |-> "Bits64", val |-> value],
     blinding |-> key]

\* RangeProof::default, with the noise NoiseDumb::default drew.
RangeProof_default(noise) == [variant |-> "Placeholder", noise |-> noise]

\* RevealedAttach::new, with the salt thread_rng().next_u64() drew.
RevealedAttach_new(id, media_type, salt) ==
    [ty |-> "RevealedAttach", id |-> id, media_type |-> media_type,
     salt |-> salt]

InitLog ==
    /\ pc = "ready" /\ op = None /\ ret = None
    /\ rng \in RngStates /\ last = None /\ prev = None

\* A call is logged, with the state the generator was in when it was made: it
\* becomes the latest one, and the one it displaces is remembered or forgotten.
Log(call, result) ==
    /\ last' = [call |-> call, ret |-> result, at |-> rng]
    /\ prev' \in {prev, last}
    /\ UNCHANGED <<pc, op, ret>>

CommitEncodeRevealed ==
    \E r \in RevealedValues :
        /\ Log([name |-> "commit_encode", self |-> r],
               RevealedValue_commit_encode(r))
        /\ UNCHANGED rng

CommitEncodeConcealed ==
    \E c \in ConcealedValues :
        /\ Log([name |-> "commit_encode", self |-> c],
               ConcealedValue_commit_encode(c))
        /\ UNCHANGED rng

PedersenCommit ==
    \E r \in RevealedValues :
        /\ Log([name |-> "commit", self |-> r], PedersenCommitment_commit(r))
        /\ UNCHANGED rng

RevealedValueNew ==
    \E value \in 0..MaxValue, key \in SecretKeys :
        /\ Log([name |-> "new", value |-> value],
               RevealedValue_new(value, key))
        /\ rng' \in RngStates \ {rng}

RangeProofDefault ==
    \E noise \in 0..MaxNoise :
        /\ Log([name |-> "default"], RangeProof_default(noise))
        /\ rng' \in RngStates \ {rng}

NextFungible ==
    \/ CommitEncodeRevealed
    \/ CommitEncodeConcealed
    \/ PedersenCommit
    \/ RevealedValueNew
    \/ RangeProofDefault

SpecFungible == InitLog /\ [][NextFungible]_vars

AttachConceal ==
    \E r \in RevealedAttachs :
        /\ Log([name |-> "conceal", self |-> r], RevealedAttach_conceal(r))
        /\ UNCHANGED rng

RevealedAttachNew ==
    \E id \in AttachIds, media_type \in MediaTypes, salt \in Salts :
        /\ Log([name |-> "new", id |-> id, media_type |-> media_type],
               RevealedAttach_new(id, media_type, salt))
        /\ rng' \in RngStates \ {rng}

NextAttach == AttachConceal \/ RevealedAttachNew

SpecAttach == InitLog /\ [][NextAttach]_vars

(***************************************************************************)
(* Properties of commitments.                                              *)
(***************************************************************************)
BothLogged == prev # None /\ last # None

LoggedEncodings ==
    /\ BothLogged
    /\ prev.call.name = "commit_encode" /\ last.call.name = "commit_encode"

\* C9: the commit encoding of a ConcealedValue depends only on its Pedersen
\* commitment: two ConcealedValues with equal commitment and different range
\* proofs have the same commit encoding, and the commit encoding of a
\* RevealedValue is that of any ConcealedValue holding its Pedersen
\* commitment.
C9_EncodingOnlyCommitment ==
    LoggedEncodings =>
        LET a == prev.call.self
            b == last.call.self
        IN  /\ (/\ a.ty = "ConcealedValue" /\ b.ty = "ConcealedValue"
                /\ a.commitment = b.commitment) => prev.ret = last.ret
            /\ (/\ a.ty = "RevealedValue" /\ b.ty = "ConcealedValue"
                /\ b.commitment = PedersenCommitment_commit(a)) =>
                  prev.ret = last.ret

C9_Witness ==
    /\ LoggedEncodings
    /\ prev.call.self.ty = "RevealedValue"
    /\ last.call.self.ty = "ConcealedValue"
    /\ last.call.self.commitment = PedersenCommitment_commit(prev.call.self)
    /\ last.call.self.range_proof.noise # 0
    /\ prev.ret = last.ret

LoggedConceals ==
    /\ BothLogged
    /\ prev.call.name = "conceal" /\ last.call.name = "conceal"

\* C10: attachment concealment is total and deterministic: conceal returns a
\* ConcealedAttach for every (id, media type, salt), concealing the same
\* RevealedAttach twice gives the same commitment, and two RevealedAttach that
\* differ only in salt give different commitments.
C10_AttachConceal ==
    /\ (last # None /\ last.call.name = "conceal") =>
          last.ret # Panic /\ DOMAIN last.ret = {"ty", "digest"}
    /\ LoggedConceals =>
          LET a == prev.call.self
              b == last.call.self
          IN  /\ (a = b) => prev.ret = last.ret
              /\ (/\ a.id = b.id /\ a.media_type = b.media_type
                  /\ a.salt # b.salt) => prev.ret # last.ret

C10_Witness ==
    /\ LoggedConceals
    /\ prev.call.self.id = last.call.self.id
    /\ prev.call.self.media_type = last.call.self.media_type
    /\ prev.call.self.salt # last.call.self.salt
    /\ prev.ret # last.ret

(***************************************************************************)
(* Entry points of a script (vm/script.rs).                                *)
(***************************************************************************)
\* Bytes the model draws: spread over the range of a byte.
ByteSamples == {(k * 85) % 256 : k \in 0..MaxByteIdx}

from_le_bytes_Swapped(lo, hi) == hi + 256 * lo

\* u16::from_le_bytes
from_le_bytes(lo, hi) == lo + 256 * hi

\* TransitionType, ExtensionType, GlobalStateType, AssignmentType: u16.
SubTypes == {from_le_bytes(lo, hi) : lo \in ByteSamples, hi \in ByteSamples}

EntryPoints ==
    {[variant |-> "ValidateGenesis"]}
    \cup [variant : {"ValidateTransition", "ValidateExtension",
                     "ValidateGlobalState", "ValidateOwnedState"},
          ty : SubTypes]

\* The pair (ty, subty) the encoder matches self to.
EntryPoint_tag(self) ==
    CASE self.variant = "ValidateGenesis" -> <<0, 0>>
      [] self.variant = "ValidateTransition" -> <<1, self.ty>>
      [] self.variant = "ValidateExtension" -> <<2, self.ty>>
      [] self.variant = "ValidateGlobalState" -> <<3, self.ty>>
      [] self.variant = "ValidateOwnedState" -> <<4, self.ty>>

EntryPoint_strict_encode_BigEndian(self) ==
    LET t == EntryPoint_tag(self)
    IN  [written |-> <<t[1], t[2] \div 256, t[2] % 256>>]

\* EntryPoint::strict_encode: val[0] = ty, val[1..] = subty.to_le_bytes(),
\* and the three bytes are written.
EntryPoint_strict_encode(self) ==
    LET t == EntryPoint_tag(self)
    IN  [written |-> <<t[1]>> \o to_le_bytes(t[2], 2)]

\* EntryPoint::strict_decode: three bytes are read (an error when the reader
\* holds fewer), the subtype is taken from the last two, and the first selects
\* the variant.
EntryPoint_strict_decode(bytes) ==
    IF Len(bytes) < 3
    THEN [ok |-> FALSE, err |-> [kind |-> "Io"]]
    ELSE LET ty == from_le_bytes(bytes[2], bytes[3])
         IN  CASE bytes[1] = 0 ->
                    [ok |-> TRUE, val |-> [variant |-> "ValidateGenesis"]]
               [] bytes[1] = 1 ->
                    [ok |-> TRUE,
                     val |-> [variant |-> "ValidateTransition", ty |-> ty]]
               [] bytes[1] = 2 ->
                    [ok |-> TRUE,
                     val |-> [variant |-> "ValidateExtension", ty |-> ty]]
               [] bytes[1] = 3 ->
                    [ok |-> TRUE,
                     val |-> [variant |-> "ValidateGlobalState", ty |-> ty]]
               [] bytes[1] = 4 ->
                    [ok |-> TRUE,
                     val |-> [variant |-> "ValidateOwnedState", ty |-> ty]]
               [] OTHER ->
                    [ok |-> FALSE,
                     err |-> [kind |-> "EnumTagNotKnown", name |-> "EntryPoint",
                              tag |-> bytes[1]]]

\* What a reader can hold: three bytes, or fewer.
WireInputs ==
    {<<t, lo, hi>> : t \in 0..MaxTag, lo \in ByteSamples, hi \in ByteSamples}
    \cup {<<t, lo>> : t \in 0..MaxTag, lo \in ByteSamples}

EntryPointEncodeCalls == [name : {"EntryPoint::strict_encode"}, self : EntryPoints]
EntryPointDecodeCalls == [name : {"EntryPoint::strict_decode"}, bytes : WireInputs]

(***************************************************************************)
(* The program container AluScript (vm/script.rs).                         *)
(***************************************************************************)
\* Maximum total number of libraries which may be used by a single program.
LIBS_MAX_TOTAL == 1024
\* The most entries a TinyOrdMap holds, and the most bytes a SmallBlob holds.
TINY_MAX == 255
SMALL_MAX == 65535

\* A library is known here by the number of bytes Lib::serialize gives for it.
\* A library map is the sequence of its libraries in the order of their ids;
\* the first library has any of the sizes, the others are one byte long.
LibSizes == {0, 1, SMALL_MAX, SMALL_MAX + 1}
LibCounts ==
    (0..MaxLibs)
    \cup {TINY_MAX, TINY_MAX + 1, LIBS_MAX_TOTAL, LIBS_MAX_TOTAL + 1}
LibMaps ==
    {[i \in 1..n |-> IF i = 1 THEN size ELSE 1] : n \in LibCounts, size \in LibSizes}

\* LibSite: a library and a position in its code.
LibSites == [lib : 1..MaxLibs, pos : {0}]

\* The entry points the model keys the mapping with.
EntryPointKeys ==
    {[variant |-> "ValidateGenesis"],
     [variant |-> "ValidateTransition", ty |-> 0],
     [variant |-> "ValidateOwnedState", ty |-> 255]}

\* SmallOrdMap<EntryPoint, LibSite>
EntryPointMaps ==
    UNION {[keys -> LibSites] : keys \in SUBSET EntryPointKeys}

Confined_try_from_Unbounded(libs) == [ok |-> TRUE, val |-> libs]

\* Confined<BTreeMap<LibId, Lib>, 0, LIBS_MAX_TOTAL>::try_from
Confined_try_from(libs) ==
    IF Len(libs) > LIBS_MAX_TOTAL
    THEN [ok |-> FALSE, err |-> [kind |-> "Oversize"]]
    ELSE [ok |-> TRUE, val |-> libs]

\* The containers that can be held: the library map passed the constructor.
AluScripts ==
    [libs : {l \in LibMaps : Confined_try_from(l).ok},
     entry_points : EntryPointMaps]

AluScript_strict_encode_Unchecked(self) ==
    [written |->
        [libs |-> self.libs,
         entryPoints |->
            {<<EntryPoint_strict_encode(k).written, self.entry_points[k]>> :
                k \in DOMAIN self.entry_points}]]

\* AluScript::strict_encode: every library is serialized into a SmallBlob
\* (an abort when it does not fit), the blobs are collected into a TinyOrdMap
\* (an abort when they are too many), and the two fields are written.
AluScript_strict_encode(self) ==
    IF \E i \in 1..Len(self.libs) : self.libs[i] > SMALL_MAX
    THEN Panic
    ELSE IF Len(self.libs) > TINY_MAX
    THEN Panic
    ELSE [written |->
            [libs |-> self.libs,
             entryPoints |->
                {<<EntryPoint_strict_encode(k).written, self.entry_points[k]>> :
                    k \in DOMAIN self.entry_points}]]

entrypoint_Single(self) ==
    IF Cardinality(DOMAIN self.entry_points) = 1
    THEN [site |-> self.entry_points[CHOOSE k \in DOMAIN self.entry_points : TRUE]]
    ELSE Panic

\* Program::entrypoint for AluScript
entrypoint(self) == Panic

\* The lookup of an entry point in the mapping of the container.
entry_points_get(self, key) ==
    IF key \in DOMAIN self.entry_points
    THEN [some |-> self.entry_points[key]]
    ELSE None

TryFromCalls == [name : {"Confined::try_from"}, libs : LibMaps]
AluScriptEncodeCalls == [name : {"AluScript::strict_encode"}, self : AluScripts]
EntrypointCalls == [name : {"entrypoint"}, self : AluScripts]
EntryPointsGetCalls ==
    [name : {"entry_points.get"}, self : AluScripts, key : EntryPointKeys]

ScriptCalls ==
    EntryPointEncodeCalls \cup EntryPointDecodeCalls \cup TryFromCalls
        \cup AluScriptEncodeCalls \cup EntrypointCalls \cup EntryPointsGetCalls

InitScript ==
    /\ pc = "ready"
    /\ op \in ScriptCalls
    /\ ret = None
    /\ rng = 0 /\ last = None /\ prev = None

\* A call returns.
Return(name, result) ==
    /\ pc = "ready" /\ op.name = name
    /\ ret' = result
    /\ pc' = "done"
    /\ UNCHANGED <<op, rng, last, prev>>

\* A second call, made with what the first one returned.
Again(name, call, result) ==
    /\ pc = "done" /\ op.name = name
    /\ last' = [call |-> call, ret |-> result]
    /\ pc' = "again"
    /\ UNCHANGED <<op, ret, rng, prev>>

EntryPointStrictEncode ==
    /\ op.name = "EntryPoint::strict_encode"
    /\ Return("EntryPoint::strict_encode", EntryPoint_strict_encode(op.self))

EntryPointStrictDecode ==
    /\ op.name = "EntryPoint::strict_decode"
    /\ Return("EntryPoint::strict_decode", EntryPoint_strict_decode(op.bytes))

\* The bytes an encoder wrote are decoded.
DecodeEncoded ==
    /\ op.name = "EntryPoint::strict_encode"
    /\ Again("EntryPoint::strict_encode",
             [name |-> "EntryPoint::strict_decode", bytes |-> ret.written],
             EntryPoint_strict_decode(ret.written))

\* The entry point a decoder returned is encoded.
EncodeDecoded ==
    /\ op.name = "EntryPoint::strict_decode"
    /\ pc = "done" /\ ret.ok
    /\ Again("EntryPoint::strict_decode",
             [name |-> "EntryPoint::strict_encode", self |-> ret.val],
             EntryPoint_strict_encode(ret.val))

AluScriptTryFrom ==
    /\ op.name = "Confined::try_from"
    /\ Return("Confined::try_from", Confined_try_from(op.libs))

AluScriptStrictEncode ==
    /\ op.name = "AluScript::strict_encode"
    /\ Return("AluScript::strict_encode", AluScript_strict_encode(op.self))

Entrypoint ==
    /\ op.name = "entrypoint"
    /\ Return("entrypoint", entrypoint(op.self))

EntryPointsGet ==
    /\ op.name = "entry_points.get"
    /\ Return("entry_points.get", entry_points_get(op.self, op.key))

NextScript ==
    \/ EntryPointStrictEncode
    \/ EntryPointStrictDecode
    \/ DecodeEncoded
    \/ EncodeDecoded
    \/ AluScriptTryFrom
    \/ AluScriptStrictEncode
    \/ Entrypoint
    \/ EntryPointsGet

SpecScript == InitScript /\ [][NextScript]_vars

(***************************************************************************)
(* Properties of entry points and of the program container.                *)
(***************************************************************************)
Returned == pc \in {"done", "again"}

\* The tag byte and the subtype of an entry point, as the wire form names
\* them.
WireTag(e) ==
    CASE e.variant = "ValidateGenesis" -> 0
      [] e.variant = "ValidateTransition" -> 1
      [] e.variant = "ValidateExtension" -> 2
      [] e.variant = "ValidateGlobalState" -> 3
      [] e.variant = "ValidateOwnedState" -> 4
WireSubtype(e) == IF e.variant = "ValidateGenesis" THEN 0 ELSE e.ty

\* C11: the strict encoding of an EntryPoint is exactly 3 bytes, the tag byte
\* 0..4 and the 16-bit subtype in little-endian order (zero for genesis);
\* decoding the encoding of an EntryPoint returns that EntryPoint; decoding 3
\* bytes whose first byte is greater than 4 returns EnumTagNotKnown.
C11_EntryPointWire ==
    /\ (Returned /\ op.name = "EntryPoint::strict_encode") =>
          /\ Len(ret.written) = 3
          /\ ret.written[1] = WireTag(op.self)
          /\ ret.written[2] = WireSubtype(op.self) % 256
          /\ ret.written[3] = WireSubtype(op.self) \div 256
    /\ (pc = "again" /\ op.name = "EntryPoint::strict_encode") =>
          last.ret = [ok |-> TRUE, val |-> op.self]
    /\ (/\ Returned /\ op.name = "EntryPoint::strict_decode"
        /\ Len(op.bytes) = 3 /\ op.bytes[1] > 4) =>
          /\ ~ret.ok
          /\ ret.err.kind = "EnumTagNotKnown"

C11_Witness ==
    /\ pc = "again" /\ op.name = "EntryPoint::strict_encode"
    /\ op.self.variant = "ValidateOwnedState"
    /\ op.self.ty % 256 # op.self.ty \div 256
    /\ last.ret = [ok |-> TRUE, val |-> op.self]

\* C12: a library set of more than 1024 libraries cannot be constructed;
\* strict-encoding an AluScript that holds more than 255 libraries fails, and
\* so does strict-encoding one with a library whose serialized body exceeds
\* 65535 bytes; an AluScript with at most 255 libraries of at most 65535
\* serialized bytes each encodes.
C12_ContainerBounds ==
    /\ (Returned /\ op.name = "Confined::try_from") =>
          (ret.ok <=> Len(op.libs) <= 1024)
    /\ (Returned /\ op.name = "AluScript::strict_encode") =>
          /\ Len(op.self.libs) <= 1024
          /\ Len(op.self.libs) > 255 => ret = Panic
          /\ (\E i \in 1..Len(op.self.libs) : op.self.libs[i] > 65535) =>
                ret = Panic
          /\ (/\ Len(op.self.libs) <= 255
              /\ \A i \in 1..Len(op.self.libs) : op.self.libs[i] <= 65535) =>
                ret # Panic /\ DOMAIN ret = {"written"}

C12_Witness ==
    /\ Returned /\ op.name = "AluScript::strict_encode"
    /\ Len(op.self.libs) = 256
    /\ \A i \in 1..Len(op.self.libs) : op.self.libs[i] <= 65535
    /\ ret = Panic

\* C13: AluScript::entrypoint aborts for every program container, whatever
\* its libraries and its entry points (also when the mapping holds exactly
\* one entry); the lookup of a hook in the mapping gives its site, and nothing
\* for an absent key.
C13_NoSingleEntryPoint ==
    /\ (Returned /\ op.name = "entrypoint") => ret = Panic
    /\ (Returned /\ op.name = "entry_points.get") =>
          IF op.key \in DOMAIN op.self.entry_points
          THEN ret = [some |-> op.self.entry_points[op.key]]
          ELSE ret = None

C13_Witness ==
    /\ Returned /\ op.name = "entrypoint"
    /\ Cardinality(DOMAIN op.self.entry_points) = 1
    /\ Len(op.self.libs) > 0
    /\ ret = Panic

Reencoded == pc = "again" /\ op.name = "EntryPoint::strict_decode"

\* C17, as claimed: for every 3-byte input strict_decode accepts, encoding
\* the decoded EntryPoint gives the same 3 bytes.
C17_Canonical ==
    Reencoded => last.ret.written = op.bytes

\* C17, amended: for every accepted input with a tag 1..4, encoding the
\* decoded EntryPoint gives the same 3 bytes; an input with the genesis tag is
\* accepted whatever its subtype bytes and encodes again as 00 00 00.
C17_CanonicalButGenesis ==
    Reencoded =>
        IF op.bytes[1] = 0
        THEN last.ret.written = <<0, 0, 0>>
        ELSE last.ret.written = op.bytes

C17_Witness ==
    /\ Reencoded
    /\ op.bytes[1] = 0 /\ op.bytes[2] # 0
    /\ ret = [ok |-> TRUE, val |-> [variant |-> "ValidateGenesis"]]
    /\ last.ret.written = <<0, 0, 0>>

(***************************************************************************)
(* The constructors of BlindingFactor (contract/fungible.rs), and the two  *)
(* uses of a blinding factor that rely on it being a scalar of the curve.  *)
(* A 32-byte string is scaled down to one byte, written as HexLen hex      *)
(* digits, and is read as the number it holds.                             *)
(***************************************************************************)
MaxTextLen == 3
HexLen == 2

HexDigits ==
    <<"0", "1", "2", "3", "4", "5", "6", "7", "8", "9",
      "a", "b", "c", "d", "e", "f">>
HexDigitsUpper ==
    <<"0", "1", "2", "3", "4", "5", "6", "7", "8", "9",
      "A", "B", "C", "D", "E", "F">>

IsHexDigit(c) ==
    \E i \in 1..16 : HexDigits[i] = c \/ HexDigitsUpper[i] = c

hex_val(c) ==
    (CHOOSE i \in 1..16 : HexDigits[i] = c \/ HexDigitsUpper[i] = c) - 1

RECURSIVE hex_value(_)
hex_value(s) ==
    IF s = <<>>
    THEN 0
    ELSE hex_value(SubSeq(s, 1, Len(s) - 1)) * 16 + hex_val(s[Len(s)])

\* The characters texts are made of: hex digits and one that is none.
TextChars == {"0", "4", "5", "F", "g"}
Texts == UNION {[1..n -> TextChars] : n \in 0..MaxTextLen}

\* The inputs of a decoder: a whole string, or a reader that ends early.
BlindingWire == {<<>>} \cup {<<b>> : b \in BlindingFactors}

\* Bytes32::from_hex: the text has to be of the length of the string and to
\* consist of hex digits; the value is not looked at.
Bytes32_from_hex(s) ==
    IF Len(s) % 2 = 1
    THEN [ok |-> FALSE, err |-> "OddLengthString"]
    ELSE IF Len(s) # HexLen
    THEN [ok |-> FALSE, err |-> "InvalidLength"]
    ELSE IF \E i \in 1..Len(s) : ~IsHexDigit(s[i])
    THEN [ok |-> FALSE, err |-> "InvalidChar"]
    ELSE [ok |-> TRUE, val |-> hex_value(s)]

\* SecretKey::from_slice
SecretKey_from_slice(array) ==
    IF ValidScalar(array)
    THEN [ok |-> TRUE, val |-> array]
    ELSE [ok |-> FALSE, err |-> "InvalidSecretKey"]

\* impl FromHex for BlindingFactor: Bytes32::from_hex(s).map(Self)
BlindingFactor_from_hex(s) == Bytes32_from_hex(s)

\* impl FromStr for BlindingFactor
BlindingFactor_from_str(s) == BlindingFactor_from_hex(s)

\* impl From<SecretKey> for BlindingFactor
BlindingFactor_from(key) == key

\* impl TryFrom<[u8; 32]> for BlindingFactor
BlindingFactor_try_from(array) ==
    LET key == SecretKey_from_slice(array)
    IN  IF key.ok
        THEN [ok |-> TRUE, val |-> BlindingFactor_from(key.val)]
        ELSE [ok |-> FALSE, err |-> "FieldOrderOverflow"]

\* #[derive(StrictDecode)] on BlindingFactor(Bytes32): the bytes are read and
\* wrapped.
BlindingFactor_strict_decode(bytes) ==
    IF Len(bytes) < 1
    THEN [ok |-> FALSE, err |-> "Io"]
    ELSE [ok |-> TRUE, val |-> bytes[1]]

\* impl From<BlindingFactor> for SecretKey
SecretKey_from(bf) ==
    LET key == SecretKey_from_slice(bf)
    IN  IF key.ok THEN [key |-> key.val] ELSE Panic

\* RevealedValue::with
RevealedValue_with(value, blinding) ==
    [ty |-> "RevealedValue", value |-> value, blinding |-> blinding]

BlindingCalls ==
    [name : {"BlindingFactor::try_from"}, array : BlindingFactors]
        \cup [name : {"BlindingFactor::from_hex", "BlindingFactor::from_str"},
              s : Texts]
        \cup [name : {"BlindingFactor::strict_decode"}, bytes : BlindingWire]
        \cup [name : {"BlindingFactor::from"}, key : SecretKeys]

InitBlinding ==
    /\ pc = "ready"
    /\ op \in BlindingCalls
    /\ ret = None
    /\ rng = 0 /\ last = None /\ prev = None

BlindingTryFrom ==
    /\ op.name = "BlindingFactor::try_from"
    /\ Return("BlindingFactor::try_from", BlindingFactor_try_from(op.array))

BlindingFromHex ==
    /\ op.name = "BlindingFactor::from_hex"
    /\ Return("BlindingFactor::from_hex", BlindingFactor_from_hex(op.s))

BlindingFromStr ==
    /\ op.name = "BlindingFactor::from_str"
    /\ Return("BlindingFactor::from_str", BlindingFactor_from_str(op.s))

BlindingStrictDecode ==
    /\ op.name = "BlindingFactor::strict_decode"
    /\ Return("BlindingFactor::strict_decode",
              BlindingFactor_strict_decode(op.bytes))

BlindingFromSecretKey ==
    /\ op.name = "BlindingFactor::from"
    /\ Return("BlindingFactor::from",
              [ok |-> TRUE, val |-> BlindingFactor_from(op.key)])

\* The blinding factor a constructor returned is used in a commitment.
CommitConstructed ==
    /\ pc = "done" /\ ret.ok
    /\ \E value \in FungibleStates :
          LET revealed == RevealedValue_with(value, ret.val)
          IN  Again(op.name, [name |-> "commit", self |-> revealed],
                    PedersenCommitment_commit(revealed))

\* The blinding factor a constructor returned is turned into a secret key.
SecretKeyFromConstructed ==
    /\ pc = "done" /\ ret.ok
    /\ Again(op.name, [name |-> "SecretKey::from", bf |-> ret.val],
             SecretKey_from(ret.val))

NextBlinding ==
    \/ BlindingTryFrom
    \/ BlindingFromHex
    \/ BlindingFromStr
    \/ BlindingStrictDecode
    \/ BlindingFromSecretKey
    \/ CommitConstructed
    \/ SecretKeyFromConstructed

SpecBlinding == InitBlinding /\ [][NextBlinding]_vars

\* C14: every BlindingFactor a public constructor returns is a scalar of the
\* curve (input out of range is rejected with an error), so that neither
\* PedersenCommitment::commit nor the conversion into a SecretKey aborts on a
\* constructed BlindingFactor.
C14_ConstructedIsScalar ==
    /\ (Returned /\ ret.ok) => ValidScalar(ret.val)
    /\ pc = "again" => last.ret # Panic

(***************************************************************************)
(* Validation of the same state behind another seal (validation/state.rs). *)
(***************************************************************************)
\* The variants of Assign that hold the state in the form data holds it in.
SameStateAxis(data) ==
    IF IsConcealedState(data)
    THEN {"Confidential", "ConfidentialState"}
    ELSE {"Revealed", "ConfidentialSeal"}

InitAxis ==
    /\ pc = "ready"
    /\ op \in ValidateCalls
    /\ ret = None
    /\ rng = 0 /\ last = None /\ prev = None

\* The state that was validated is validated once more, in an assignment with
\* any seal, concealed or revealed.
ValidateOtherSeal ==
    /\ op.name = "validate"
    /\ \E variant \in SameStateAxis(op.data), seal \in Seals :
          LET data == [variant |-> variant, seal |-> seal,
                       state |-> op.data.state]
          IN  Again("validate", [op EXCEPT !.data = data],
                    validate(op.self, op.type_system, op.opid, op.state_type,
                             data))

NextAxis == Validate \/ ValidateOtherSeal

SpecAxis == InitAxis /\ [][NextAxis]_vars

\* C15: the status StateSchema::validate returns depends on the state of the
\* assignment only: for the same schema, operation id, slot type and state,
\* Confidential and ConfidentialState give the same status, and so do Revealed
\* and ConfidentialSeal, whatever the seal.
C15_StateAxisOnly ==
    (/\ pc = "again"
     /\ last.call.data.state = op.data.state
     /\ \/ {last.call.data.variant, op.data.variant}
                \subseteq {"Confidential", "ConfidentialState"}
        \/ {last.call.data.variant, op.data.variant}
                \subseteq {"Revealed", "ConfidentialSeal"})
        => last.ret = ret

C15_Witness ==
    /\ pc = "again"
    /\ op.data.variant = "Confidential"
    /\ last.call.data.variant = "ConfidentialState"
    /\ last.call.data.seal # op.data.seal
    /\ last.call.data.state = op.data.state
    /\ ret.failures # <<>>
    /\ last.ret = ret

(***************************************************************************)
(* The shape of the status validate returns.                               *)
(***************************************************************************)
Validated == pc = "done" /\ op.name = "validate"

RecordCount(status) ==
    Len(status.failures) + Len(status.warnings) + Len(status.info)

\* C16: the status StateSchema::validate returns holds at most one record in
\* total (nothing, one failure or one info; never a failure with an info,
\* never two failures); an info is there for concealed state only; every
\* record carries the operation id and the slot type of the call.
C16_AtMostOneRecord ==
    Validated =>
        /\ RecordCount(ret) <= 1
        /\ ret.warnings = <<>>
        /\ ret.info # <<>> => IsConcealedState(op.data)
        /\ \A i \in 1..Len(ret.failures) :
              /\ ret.failures[i].opid = op.opid
              /\ ret.failures[i].state_type = op.state_type
        /\ \A i \in 1..Len(ret.info) :
              /\ ret.info[i].opid = op.opid
              /\ ret.info[i].state_type = op.state_type

C16_Witness ==
    /\ Validated
    /\ op.self.kind = "Fungible"
    /\ IsConcealedState(op.data)
    /\ Len(ret.failures) = 1 /\ ret.info = <<>>
    /\ ret.failures[1].failure = "BulletproofsInvalid"
    /\ ret.failures[1].opid = MaxOpId
    /\ ret.failures[1].state_type = MaxAssignmentType

====
